---- MODULE Spec2Model ----
(***************************************************************************)
(* Model of the inquiry-split scripts.                                     *)
(*                                                                         *)
(*   harvest   : src/extact2-<history>.py  ExcelColumnExtractor            *)
(*               (find_header_row, process_header, process_excel_file,     *)
(*                process_folder, save_to_json)                            *)
(*   decompose : src/extact2-<auto-split>.py  process_folder, lines 263+   *)
(*   legacy    : src/extract1-<usable>.py  is_header_row/find_header_row   *)
(*                                                                         *)
(* A Python str is a sequence of characters; a character is a one-letter   *)
(* string, and a CJK character is written by its code point ("u6807").     *)
(* A spreadsheet cell is a record [k, s]: k is "nan" (missing), "str",     *)
(* "num" (int/float) or "obj" (any other object, e.g. a datetime), and s   *)
(* is what str(cell) gives.                                                *)
(***************************************************************************)
EXTENDS Integers, Sequences, FiniteSets, TLC

VARIABLES
    hdr_df,       \* header location: the table handed to find_header_row
    hdr_variant,  \* header location: which script's find_header_row ran
    hdr_result,   \* header location: the index it returned
    all_data,     \* harvest: self.all_data, column name -> set (list once finalized)
    disk,         \* harvest: extracted_columns.json, [present, data: column name -> list]
    pc,           \* harvest: position in main()/process_folder
    files_done,   \* harvest: the files process_excel_file was called on in this run
    kb_start,     \* harvest: all_data when the file loop of this run started
    kb_before,    \* harvest: all_data before the last process_excel_file call
    merge_log,    \* harvest: the merges (line 233-243) the last call made
    nfiles,       \* harvest: process_excel_file calls so far, over all runs
    orign_map_data, \* decompose: the mapping read from extracted_columns.json
    value,        \* decompose: the cell being decomposed
    split,        \* decompose: its tokens (line 272)
    tok_idx,      \* decompose: index of the next token of the loop of line 279
    row_data,     \* decompose: the record being built
    dpc,          \* decompose: position in the loop of line 268
    config        \* harvest: the extractor's keywords and white_list_keywords

hdr_vars == <<hdr_df, hdr_variant, hdr_result>>
hv_vars == <<all_data, disk, pc, files_done, kb_start, kb_before, merge_log, nfiles,
            config>>
dc_vars == <<orign_map_data, value, split, tok_idx, row_data, dpc>>
vars == <<hdr_vars, hv_vars, dc_vars>>

Unset == "unset"

----------------------------------------------------------------------------
(* Characters and Python's str operations                                  *)

Digits == {"0", "1", "2", "3", "4", "5", "6", "7", "8", "9"}
Whitespace == {" ", "\n", "\t"}
UpperSeq == <<"A", "B", "C", "D", "E", "F", "G", "H", "I", "J", "K", "L", "M",
              "N", "O", "P", "Q", "R", "S", "T", "U", "V", "W", "X", "Y", "Z">>
LowerSeq == <<"a", "b", "c", "d", "e", "f", "g", "h", "i", "j", "k", "l", "m",
              "n", "o", "p", "q", "r", "s", "t", "u", "v", "w", "x", "y", "z">>

\* The CJK characters the model's inputs use, all inside [u4e00-u9fff].
CJK == {"u6807", "u51c6", "u6750", "u8d28", "u540d", "u79f0", "u63cf",
        "u8ff0", "u5907", "u6ce8", "u5e8f", "u53f7", "u56fd", "u5de5",
        "u827a", "u5916", "u5f84", "u58c1", "u539a", "u538b", "u529b", "u5c3a",
        "u5bf8", "u8fde", "u63a5", "u9762"}

\* Code-point order of every character the model uses (for sorted()).
CharOrder == <<"\t", "\n", " ", "+", ",", "-", ".", "/",
               "0", "1", "2", "3", "4", "5", "6", "7", "8", "9", ";">>
             \o UpperSeq \o <<"_">> \o LowerSeq
             \o <<"u51c6", "u529b", "u538b", "u539a", "u53f7", "u540d",
                  "u56fd", "u58c1", "u5907", "u5916", "u5bf8", "u5c3a",
                  "u5de5", "u5e8f", "u5f84", "u63a5", "u63cf", "u6750",
                  "u6807", "u6ce8", "u79f0", "u827a", "u8d28", "u8fde",
                  "u8ff0", "u9762">>

Ord(c) == CHOOSE i \in 1..Len(CharOrder) : CharOrder[i] = c

LowerChar(c) ==
    IF \E i \in 1..26 : UpperSeq[i] = c
    THEN LowerSeq[CHOOSE i \in 1..26 : UpperSeq[i] = c]
    ELSE c

Lower(s) == [i \in 1..Len(s) |-> LowerChar(s[i])]

\* e in v
IsSubstr(e, v) ==
    \E i \in 1..(Len(v) - Len(e) + 1) : SubSeq(v, i, i + Len(e) - 1) = e

RECURSIVE LStrip(_)
LStrip(s) ==
    IF s # <<>> /\ Head(s) \in Whitespace THEN LStrip(Tail(s)) ELSE s

RECURSIVE RStrip(_)
RStrip(s) ==
    IF s # <<>> /\ s[Len(s)] \in Whitespace
    THEN RStrip(SubSeq(s, 1, Len(s) - 1))
    ELSE s

Strip(s) == RStrip(LStrip(s))

\* digit ("_"? digit)*
IsDigitPart(s) ==
    /\ s # <<>>
    /\ \A i \in 1..Len(s) : s[i] \in Digits \cup {"_"}
    /\ s[1] \in Digits
    /\ s[Len(s)] \in Digits
    /\ \A i \in 1..(Len(s) - 1) : ~(s[i] = "_" /\ s[i + 1] = "_")

DropSign(s) == IF s # <<>> /\ Head(s) \in {"+", "-"} THEN Tail(s) ELSE s

\* int(s) of a str succeeds
PyIntOk(s) == IsDigitPart(DropSign(Strip(s)))

FirstIndex(s, cs) ==
    IF \E i \in 1..Len(s) : s[i] \in cs
    THEN CHOOSE i \in 1..Len(s) : s[i] \in cs /\ \A j \in 1..(i - 1) : s[j] \notin cs
    ELSE 0

IsMantissa(m) ==
    LET p == FirstIndex(m, {"."})
        a == SubSeq(m, 1, p - 1)
        b == SubSeq(m, p + 1, Len(m))
    IN  IF p = 0 THEN IsDigitPart(m)
        ELSE \/ IsDigitPart(a) /\ (b = <<>> \/ IsDigitPart(b))
             \/ a = <<>> /\ IsDigitPart(b)

\* float(s) of a str succeeds
PyFloatOk(s) ==
    LET u == DropSign(Strip(s))
        p == FirstIndex(u, {"e", "E"})
    IN  \/ Lower(u) \in {<<"i", "n", "f">>, <<"n", "a", "n">>,
                         <<"i", "n", "f", "i", "n", "i", "t", "y">>}
        \/ p = 0 /\ IsMantissa(u)
        \/ /\ p > 0
           /\ IsMantissa(SubSeq(u, 1, p - 1))
           /\ IsDigitPart(DropSign(SubSeq(u, p + 1, Len(u))))

contains_chinese(text) == \E i \in 1..Len(text) : text[i] \in CJK

\* re.match(r'^-?\d+\.?\d*$', s)
PlainDecimalRe(s) ==
    LET u == IF s # <<>> /\ Head(s) = "-" THEN Tail(s) ELSE s
        p == FirstIndex(u, {"."})
        a == IF p = 0 THEN u ELSE SubSeq(u, 1, p - 1)
        b == IF p = 0 THEN <<>> ELSE SubSeq(u, p + 1, Len(u))
    IN  /\ a # <<>>
        /\ \A i \in 1..Len(a) : a[i] \in Digits
        /\ \A i \in 1..Len(b) : b[i] \in Digits

----------------------------------------------------------------------------
(* Cells and tables                                                        *)

NaN == [k |-> "nan", s |-> <<"n", "a", "n">>]
Str(s) == [k |-> "str", s |-> s]
Num(s) == [k |-> "num", s |-> s]
Obj(s) == [k |-> "obj", s |-> s]

isna(cell) == cell.k = "nan"

dropna(row) == SelectSeq(row, LAMBDA c : ~isna(c))

----------------------------------------------------------------------------
(* Header location                                                         *)

HeaderWindow == 10

Min(a, b) == IF a < b THEN a ELSE b

\* faulty variant: the ratio test admits exactly one half
string_ratio_ge_half(string_cells, non_empty) == 2 * string_cells >= non_empty

\* string_ratio > 0.5, with string_ratio = string_cells / non_empty
string_ratio_gt_half(string_cells, non_empty) == 2 * string_cells > non_empty

\* extact2 (both scripts): is_header_row(df_slice, row_index), rows 0-based
is_header_row(df_slice, row_index) ==
    IF row_index >= Len(df_slice) - 1 THEN FALSE
    ELSE
        LET current_row == df_slice[row_index + 1]
            next_row == df_slice[row_index + 2]
            non_empty_cells == dropna(current_row)
            string_cells == Len(SelectSeq(non_empty_cells, LAMBDA c : c.k = "str"))
        IN  IF Len(non_empty_cells) = 0 THEN FALSE
            ELSE /\ string_ratio_gt_half(string_cells, Len(non_empty_cells))
                 /\ Len(dropna(next_row)) > 0

CandidateRows(df) == 0..(Min(HeaderWindow, Len(df)) - 2)

\* faulty variant: the scan keeps the last row that qualifies, not the first
find_header_row_last(df) ==
    LET check_rows == Min(HeaderWindow, Len(df))
        df_slice == SubSeq(df, 1, check_rows)
        hits == {i \in CandidateRows(df) : is_header_row(df_slice, i)}
    IN  IF hits = {} THEN 0
        ELSE CHOOSE i \in hits : \A j \in hits : i >= j

\* extact2 (both scripts): find_header_row(df)
find_header_row(df) ==
    LET check_rows == Min(HeaderWindow, Len(df))
        df_slice == SubSeq(df, 1, check_rows)
        hits == {i \in CandidateRows(df) : is_header_row(df_slice, i)}
    IN  IF hits = {} THEN 0
        ELSE CHOOSE i \in hits : \A j \in hits : i <= j

\* extract1: a cell counts as a string cell
counts_as_string1(c) ==
    \/ c.k = "str"
    \/ /\ c.k # "nan"
       /\ Strip(c.s) # <<>>
       /\ ~PlainDecimalRe(Strip(c.s))

\* extract1: is_header_row(df, row_index)
is_header_row1(df, row_index) ==
    IF row_index >= Len(df) - 1 THEN FALSE
    ELSE
        LET current_row == df[row_index + 1]
            next_row == df[row_index + 2]
            total_non_empty == Len(dropna(current_row))
            string_cells == Len(SelectSeq(dropna(current_row), counts_as_string1))
        IN  IF total_non_empty = 0 THEN FALSE
            ELSE /\ string_ratio_gt_half(string_cells, total_non_empty)
                 /\ Len(dropna(next_row)) > 0

CandidateRows1(df) == 0..(Min(HeaderWindow, Len(df) - 1) - 1)

\* extract1: find_header_row(df)
find_header_row1(df) ==
    LET hits == {i \in CandidateRows1(df) : is_header_row1(df, i)}
    IN  IF hits = {} THEN 0
        ELSE CHOOSE i \in hits : \A j \in hits : i <= j

----------------------------------------------------------------------------
(* Header location: the tables tried                                       *)

MaxPrefix == 10
MaxTail == 2

HdrCells == {NaN, Str(<<"A">>), Num(<<"1">>), Obj(<<"2", "0", "2", "4", "-", "0", "1">>)}
HdrRows == [1..2 -> HdrCells]

\* The rows a table may repeat: all missing, all numeric, half text (no
\* variant takes these for a header), and all text (a header for both)
FillerRows ==
    {<<NaN, NaN>>, <<Num(<<"1">>), Num(<<"1">>)>>, <<Str(<<"A">>), Num(<<"1">>)>>,
     <<Str(<<"A">>), Str(<<"A">>)>>}

Repeat(r, n) == [i \in 1..n |-> r]

HdrTails == UNION {[1..n -> HdrRows] : n \in 0..MaxTail}

\* k equal filler rows, then up to MaxTail arbitrary rows
\* (find_header_row is only called on a table that is not empty)
HdrTables ==
    {Repeat(r, k) \o t : r \in FillerRows, k \in 0..MaxPrefix, t \in HdrTails} \ {<<>>}

HdrIdle == hdr_df = <<>> /\ hdr_variant = Unset /\ hdr_result = -1

HdrInit ==
    /\ hdr_df \in HdrTables
    /\ hdr_variant = Unset
    /\ hdr_result = -1

\* extact2: header_row_index = self.find_header_row(df)
FindHeaderRow ==
    /\ hdr_variant = Unset
    /\ hdr_variant' = "extact2"
    /\ hdr_result' = find_header_row(hdr_df)
    /\ UNCHANGED hdr_df
    /\ UNCHANGED <<hv_vars, dc_vars>>

\* extract1: header_row_idx = self.find_header_row(df)
FindHeaderRow1 ==
    /\ hdr_variant = Unset
    /\ hdr_variant' = "extract1"
    /\ hdr_result' = find_header_row1(hdr_df)
    /\ UNCHANGED hdr_df
    /\ UNCHANGED <<hv_vars, dc_vars>>

----------------------------------------------------------------------------
(* Harvest: column naming and classification                               *)

s_Column_ == <<"C", "o", "l", "u", "m", "n", "_">>

DigitSeq == <<"0", "1", "2", "3", "4", "5", "6", "7", "8", "9">>

\* str(n) of an int n >= 0
RECURSIVE IntStr(_)
IntStr(n) ==
    IF n < 10 THEN <<DigitSeq[n + 1]>>
    ELSE IntStr(n \div 10) \o <<DigitSeq[(n % 10) + 1]>>

\* header_cell == '' (a str cell that is empty)
IsEmptyStr(cell) == cell.k = "str" /\ cell.s = <<>>

\* extact2: process_header(header_row, first_data_row), one name per header cell
process_header(header_row, first_data_row) ==
    [i \in 1..Len(header_row) |->
        LET idx == i - 1
            header_cell == header_row[i]
        IN  IF isna(header_cell) \/ IsEmptyStr(header_cell)
            THEN IF idx < Len(first_data_row) /\ ~isna(first_data_row[i])
                 THEN first_data_row[i].s
                 ELSE s_Column_ \o IntStr(idx)
            ELSE header_cell.s]

KeywordHit(keyword_list, column_name_str) ==
    \E i \in 1..Len(keyword_list) :
        IsSubstr(Lower(keyword_list[i]), Lower(column_name_str))

\* faulty variant: the test for a Chinese character is left out
should_skip_column_any_script(column_name) ==
    IF column_name = <<>> THEN FALSE
    ELSE KeywordHit(config.keywords, column_name)

\* harvest script: should_skip_column(column_name)
should_skip_column(column_name) ==
    IF column_name = <<>> THEN FALSE
    ELSE \/ KeywordHit(config.keywords, column_name)
         \/ ~contains_chinese(column_name)

\* harvest script: is_in_white_list(column_name)
is_in_white_list(column_name) ==
    IF column_name = <<>> THEN FALSE
    ELSE KeywordHit(config.white_list_keywords, column_name)

----------------------------------------------------------------------------
(* Harvest: cleaning the cells of one column, merging into all_data        *)

s_dash == <<"-">>
s_biaozhun == <<"u6807", "u51c6">>

\* lines 216-222: the item is a number, or a str that int()/float() parses
ParsesAsNumber(item) ==
    \/ item.k = "num"
    \/ /\ item.k = "str"
       /\ IF \E i \in 1..Len(item.s) : item.s[i] = "."
          THEN PyFloatOk(item.s)
          ELSE PyIntOk(item.s)

\* lines 212-230: what one cell adds to processed_data
CleanItem(item) ==
    IF isna(item) \/ ParsesAsNumber(item) THEN {}
    ELSE LET stripped == Strip(item.s)
         IN  IF contains_chinese(stripped) \/ stripped = s_dash THEN {}
             ELSE {stripped}

\* lines 208-230: processed_data of column col_idx (0-based) of data_df
ProcessedData(data_df, col_idx) ==
    UNION {CleanItem(data_df[r][col_idx + 1]) : r \in 1..Len(data_df)}

\* faulty variant: the containment test is turned round (item in item2)
SubsumeReversed(processed_data, existing) ==
    {item \in processed_data : ~\E item2 \in existing : IsSubstr(item, item2)}

\* lines 236-241: the items of processed_data that survive the containment check
Subsume(processed_data, existing) ==
    {item \in processed_data : ~\E item2 \in existing : IsSubstr(item2, item)}

EmptyMap == [x \in {} |-> {}]

\* faulty variant: the column is assigned, not updated
MergeColumnAssign(data, col_name, processed_data) ==
    LET data1 == IF col_name \in DOMAIN data THEN data ELSE (col_name :> {}) @@ data
        kept == IF col_name = s_biaozhun
                THEN {item \in processed_data :
                        ~\E item2 \in data1[s_biaozhun] : IsSubstr(item2, item)}
                ELSE processed_data
    IN  [data1 EXCEPT ![col_name] = kept]

\* faulty variant: the containment check is applied to every column
MergeColumnSubsumeAll(data, col_name, processed_data) ==
    LET data1 == IF col_name \in DOMAIN data THEN data ELSE (col_name :> {}) @@ data
    IN  [data1 EXCEPT ![col_name] = @ \cup Subsume(processed_data, data1[col_name])]

\* lines 233-243: merge processed_data into all_data[col_name]
MergeColumn(data, col_name, processed_data) ==
    LET data1 == IF col_name \in DOMAIN data THEN data ELSE (col_name :> {}) @@ data
        kept == IF col_name = s_biaozhun
                THEN Subsume(processed_data, data1[s_biaozhun])
                ELSE processed_data
    IN  [data1 EXCEPT ![col_name] = @ \cup kept]

----------------------------------------------------------------------------
(* Harvest: process_excel_file                                             *)

\* A file is [readable, sheets]: pd.ExcelFile raises on a file that is not
\* readable. A sheet is [readable, rows]: pd.read_excel raises on a sheet
\* that is not readable.
Sheet(rows) == [readable |-> TRUE, rows |-> rows]
BadSheet == [readable |-> FALSE, rows |-> <<>>]
File(sheets) == [readable |-> TRUE, sheets |-> sheets]
BadFile == [readable |-> FALSE, sheets |-> <<>>]

Width(df) == IF df = <<>> THEN 0 ELSE Len(df[1])

\* df.empty
IsEmptyDf(df) == Len(df) = 0 \/ Width(df) = 0

\* lines 199-243: the loop over column_names, from col_idx on;
\* st is [data, log], log records every merge made
RECURSIVE ProcessColumns(_, _, _, _, _)
ProcessColumns(st, column_names, data_df, col_idx, sheet) ==
    IF col_idx >= Len(column_names) THEN st
    ELSE
        LET col_name == column_names[col_idx + 1]
        IN  IF \/ col_idx >= Width(data_df)
               \/ should_skip_column(col_name)
               \/ ~is_in_white_list(col_name)
            THEN ProcessColumns(st, column_names, data_df, col_idx + 1, sheet)
            ELSE
                LET processed_data == ProcessedData(data_df, col_idx)
                    merged == MergeColumn(st.data, col_name, processed_data)
                    entry == [sheet |-> sheet, col_idx |-> col_idx, col_name |-> col_name,
                              harvested |-> processed_data,
                              before |-> st.data, after |-> merged]
                IN  ProcessColumns([data |-> merged, log |-> Append(st.log, entry)],
                                   column_names, data_df, col_idx + 1, sheet)

\* line 195-196: pd.read_excel(file_path, sheet_name=0, header=None, skiprows=...)
ReadDataDf(file, data_start_row) ==
    SubSeq(file.sheets[1].rows, data_start_row + 1, Len(file.sheets[1].rows))

\* lines 169-243: the loop over the sheets, from sheet i (0-based) on
RECURSIVE ProcessSheets(_, _, _)
ProcessSheets(st, file, i) ==
    IF i >= Len(file.sheets) THEN st
    ELSE
        LET df == file.sheets[i + 1].rows
        IN  IF ~file.sheets[i + 1].readable THEN st   \* read_excel raises: line 245
            ELSE IF IsEmptyDf(df) THEN st     \* return, line 175
            ELSE
                LET header_row_index == find_header_row(df)
                    data_start_row == header_row_index + 1
                IN  IF data_start_row >= Len(df) THEN st    \* return, line 187
                    ELSE
                        LET column_names ==
                                process_header(df[header_row_index + 1],
                                               df[data_start_row + 1])
                            data_df == ReadDataDf(file, data_start_row)
                        IN  ProcessSheets(
                                ProcessColumns(st, column_names, data_df, 0, i),
                                file, i + 1)

\* process_excel_file(file_path): [data, log]
process_excel_file(data, file) ==
    IF ~file.readable THEN [data |-> data, log |-> <<>>]   \* pd.ExcelFile raises
    ELSE ProcessSheets([data |-> data, log |-> <<>>], file, 0)

----------------------------------------------------------------------------
(* Harvest: finalize and save                                              *)

\* a < b for Python str
RECURSIVE StrLess(_, _)
StrLess(a, b) ==
    IF b = <<>> THEN FALSE
    ELSE IF a = <<>> THEN TRUE
    ELSE IF Head(a) = Head(b) THEN StrLess(Tail(a), Tail(b))
    ELSE Ord(Head(a)) < Ord(Head(b))

\* sorted(values) of a set of str
RECURSIVE Sorted(_)
Sorted(values) ==
    IF values = {} THEN <<>>
    ELSE LET m == CHOOSE x \in values : \A y \in values \ {x} : StrLess(x, y)
         IN  <<m>> \o Sorted(values \ {m})

Range(f) == {f[x] : x \in DOMAIN f}

\* faulty variant: the columns left empty are kept
FinalizedKeepsEmpty(data) ==
    [k \in DOMAIN data |-> Sorted(data[k])]

\* lines 281-283: sort every column, drop the columns left empty
Finalized(data) ==
    LET keep == {k \in DOMAIN data : data[k] # {}}
    IN  [k \in keep |-> Sorted(data[k])]

\* faulty variant: the first value of every loaded list is lost
LoadedSetsButFirst(mapping) == [k \in DOMAIN mapping |-> Range(Tail(mapping[k]))]

\* lines 273-275: the loaded mapping, every list made a set
LoadedSets(mapping) == [k \in DOMAIN mapping |-> Range(mapping[k])]

----------------------------------------------------------------------------
(* Harvest: configurations and files tried                                 *)

s_A312 == <<"A", "3", "1", "2">>
s_ASTM_A312 == <<"A", "S", "T", "M", " ", "A", "3", "1", "2">>
s_SS316 == <<"S", "S", "3", "1", "6">>
s_Item == <<"I", "t", "e", "m">>
s_Material == <<"M", "a", "t", "e", "r", "i", "a", "l">>
s_Standard == <<"S", "t", "a", "n", "d", "a", "r", "d">>
s_Description == <<"D", "e", "s", "c", "r", "i", "p", "t", "i", "o", "n">>
s_dots == <<".", ".", ".">>
s_blank == <<" ">>
s_12 == <<"1", "2">>
s_1 == <<"1">>
s_xuhao == <<"u5e8f", "u53f7">>
s_caizhi == <<"u6750", "u8d28">>
s_miaoshu == <<"u63cf", "u8ff0">>
s_mingcheng == <<"u540d", "u79f0">>
s_guobiao == <<"u56fd", "u6807">>

\* main(), lines 322 and 324
MainConfig ==
    [keywords |-> <<s_Description, s_miaoshu, <<"N", "O">>, <<"S", "/", "N">>,
                    <<"U", "N", "I", "T">>, <<"Q", "T", "Y">>, <<"U", "o", "M">>,
                    <<"I", "T", "E", "M">>>>,
     white_list_keywords |-> <<<<"u5de5", "u827a">>, <<"u5916", "u5f84">>,
                               <<"u58c1", "u539a">>, s_caizhi, s_biaozhun,
                               <<"u538b", "u529b">>, <<"u5c3a", "u5bf8">>, s_mingcheng,
                               <<"u8fde", "u63a5", "u9762">>>>]

\* ExcelColumnExtractor(keywords=[], white_list_keywords=["Material", "Standard"])
EnglishConfig ==
    [keywords |-> <<>>, white_list_keywords |-> <<s_Material, s_Standard>>]

Configs == {MainConfig, EnglishConfig}

ExampleRow == <<Num(s_1), Str(s_SS316), Str(s_ASTM_A312), Str(s_dots)>>

\* header at row 0, one data row; the column names are English
EnglishSheet ==
    Sheet(<<<<Str(s_Item), Str(s_Material), Str(s_Standard), Str(s_Description)>>,
            ExampleRow>>)

\* the same table with the column names in Chinese
ChineseSheet ==
    Sheet(<<<<Str(s_xuhao), Str(s_caizhi), Str(s_biaozhun), Str(s_miaoshu)>>,
            ExampleRow>>)

\* one column: the header cell, then one cell per row
ColumnSheet(header, cells) ==
    Sheet(<<<<Str(header)>>>> \o [i \in 1..Len(cells) |-> <<cells[i]>>])

StandardColumns ==
    {<<Str(s_A312)>>, <<Str(s_ASTM_A312)>>, <<Str(s_A312), Str(s_ASTM_A312)>>,
     <<Str(s_blank)>>,
     <<Str(s_dash), Num(s_12), Str(s_12), Str(s_guobiao), NaN>>}

MaterialColumns == {<<Str(s_SS316)>>, <<Str(s_A312)>>, <<Str(s_A312), Str(s_ASTM_A312)>>}

\* a title row of numbers above the header row
TitledSheet ==
    Sheet(<<<<Num(s_12), NaN>>, <<Str(s_biaozhun), Str(s_caizhi)>>,
            <<Str(s_ASTM_A312), Str(s_SS316)>>>>)

\* the header cell of column 0 is missing: its name is the first data cell
BlankHeaderSheet ==
    Sheet(<<<<NaN, Str(s_xuhao)>>, <<Str(s_biaozhun), Num(s_1)>>,
            <<Str(s_A312), Num(s_1)>>>>)

\* the header cell has a blank after the column name
PaddedHeaderSheet == ColumnSheet(s_biaozhun \o <<" ">>, <<Str(s_A312)>>)

EmptySheet == Sheet(<<>>)
HeaderOnlySheet == Sheet(<<<<Str(s_biaozhun), Str(s_caizhi)>>>>)

Sheets ==
    {EnglishSheet, ChineseSheet, TitledSheet, BlankHeaderSheet, EmptySheet,
     HeaderOnlySheet, PaddedHeaderSheet}
    \cup {ColumnSheet(s_biaozhun, c) : c \in StandardColumns}
    \cup {ColumnSheet(s_caizhi, c) : c \in MaterialColumns}

Files ==
    {File(<<sh>>) : sh \in Sheets}
    \cup {BadFile,
          File(<<ColumnSheet(s_biaozhun, <<Str(s_A312)>>),
                 ColumnSheet(s_biaozhun, <<Str(s_ASTM_A312)>>)>>),
          File(<<ColumnSheet(s_caizhi, <<Str(s_SS316)>>), ChineseSheet>>),
          File(<<ColumnSheet(s_biaozhun, <<Str(s_A312)>>), EmptySheet,
                 ColumnSheet(s_caizhi, <<Str(s_SS316)>>)>>),
          File(<<ColumnSheet(s_caizhi, <<Str(s_SS316)>>), BadSheet,
                 ColumnSheet(s_biaozhun, <<Str(s_ASTM_A312)>>)>>)}

----------------------------------------------------------------------------
(* Harvest: main() and process_folder as a state machine                   *)

MaxFiles == 2

NoDisk == [present |-> FALSE, data |-> EmptyMap]

HvIdle ==
    /\ all_data = EmptyMap
    /\ disk = NoDisk
    /\ pc = "off"
    /\ files_done = <<>>
    /\ kb_start = EmptyMap
    /\ kb_before = EmptyMap
    /\ merge_log = <<>>
    /\ nfiles = 0
    /\ config = MainConfig

DcIdle ==
    /\ orign_map_data = <<>>
    /\ value = <<>>
    /\ split = <<>>
    /\ tok_idx = 0
    /\ row_data = <<>>
    /\ dpc = "off"

\* a new ExcelColumnExtractor; no extracted_columns.json yet
HvInit ==
    /\ all_data = EmptyMap
    /\ disk = NoDisk
    /\ pc = "idle"
    /\ files_done = <<>>
    /\ kb_start = EmptyMap
    /\ kb_before = EmptyMap
    /\ merge_log = <<>>
    /\ nfiles = 0
    /\ config \in Configs

\* process_folder, lines 255-267, and main, lines 332-334: no folder or no
\* Excel file in it; nothing is read and nothing is written
NoExcelFiles ==
    /\ pc = "idle"
    /\ pc' = "done"
    /\ UNCHANGED <<all_data, disk, files_done, kb_start, kb_before, merge_log,
                   nfiles, config>>
    /\ UNCHANGED <<hdr_vars, dc_vars>>

\* process_folder, lines 271-275: read the snapshot, if there is one
LoadSnapshot ==
    /\ pc = "idle"
    /\ all_data' = IF disk.present THEN LoadedSets(disk.data) ELSE all_data
    /\ kb_start' = all_data'
    /\ kb_before' = all_data'
    /\ pc' = "files"
    /\ UNCHANGED <<disk, files_done, merge_log, nfiles, config>>
    /\ UNCHANGED <<hdr_vars, dc_vars>>

\* process_folder, lines 277-279: one turn of the loop over excel_files
ProcessFile ==
    /\ pc = "files"
    /\ nfiles < MaxFiles
    /\ \E file \in Files :
        LET r == process_excel_file(all_data, file)
        IN  /\ all_data' = r.data
            /\ merge_log' = r.log
            /\ files_done' = Append(files_done, file)
    /\ kb_before' = all_data
    /\ nfiles' = nfiles + 1
    /\ UNCHANGED <<disk, pc, kb_start, config>>
    /\ UNCHANGED <<hdr_vars, dc_vars>>

\* process_folder, lines 281-283: the loop is over (excel_files is not empty)
Finalize ==
    /\ pc = "files"
    /\ files_done # <<>>
    /\ all_data' = Finalized(all_data)
    /\ pc' = "finalized"
    /\ UNCHANGED <<disk, files_done, kb_start, kb_before, merge_log, nfiles, config>>
    /\ UNCHANGED <<hdr_vars, dc_vars>>

\* main, lines 332-340: save_to_json unless all_data is empty
SaveToJson ==
    /\ pc = "finalized"
    /\ disk' = IF DOMAIN all_data = {} THEN disk
               ELSE [present |-> TRUE, data |-> all_data]
    /\ pc' = "done"
    /\ UNCHANGED <<all_data, files_done, kb_start, kb_before, merge_log, nfiles,
                   config>>
    /\ UNCHANGED <<hdr_vars, dc_vars>>

\* the script is started again: a new extractor, the same working directory
NewRun ==
    /\ pc = "done"
    /\ nfiles < MaxFiles
    /\ all_data' = EmptyMap
    /\ files_done' = <<>>
    /\ kb_start' = EmptyMap
    /\ kb_before' = EmptyMap
    /\ merge_log' = <<>>
    /\ pc' = "idle"
    /\ UNCHANGED <<disk, nfiles, config>>
    /\ UNCHANGED <<hdr_vars, dc_vars>>

HvNext ==
    \/ NoExcelFiles
    \/ LoadSnapshot
    \/ ProcessFile
    \/ Finalize
    \/ SaveToJson
    \/ NewRun

----------------------------------------------------------------------------
(* Decompose: Python and thefuzz helpers                                   *)

\* s.split(ch): the pieces between the occurrences of ch
RECURSIVE PySplit(_, _)
PySplit(s, ch) ==
    LET p == FirstIndex(s, {ch})
    IN  IF p = 0 THEN <<s>>
        ELSE <<SubSeq(s, 1, p - 1)>> \o PySplit(SubSeq(s, p + 1, Len(s)), ch)

\* s.replace("\n", " ")
ReplaceNewlines(s) == [i \in 1..Len(s) |-> IF s[i] = "\n" THEN " " ELSE s[i]]

\* is_number(s): float(s) does not raise
is_number(s) == PyFloatOk(s)

IsAlnum(c) ==
    \/ c \in Digits
    \/ c \in CJK
    \/ \E i \in 1..26 : c = UpperSeq[i] \/ c = LowerSeq[i]

\* thefuzz utils.full_process: lower case, every character that is not
\* alphanumeric made a space, stripped
full_process(s) ==
    Strip([i \in 1..Len(s) |-> IF IsAlnum(s[i]) THEN LowerChar(s[i]) ELSE " "])

\* s.split(): the words between runs of whitespace
RECURSIVE Words(_)
Words(s) ==
    LET t == LStrip(s)
        p == FirstIndex(t, Whitespace)
    IN  IF t = <<>> THEN <<>>
        ELSE IF p = 0 THEN <<t>>
        ELSE <<SubSeq(t, 1, p - 1)>> \o Words(SubSeq(t, p + 1, Len(t)))

\* sorted(words) of a list of str, duplicates kept
RECURSIVE SortedSeq(_)
SortedSeq(words) ==
    IF words = <<>> THEN <<>>
    ELSE LET m == CHOOSE i \in 1..Len(words) :
                    \A j \in 1..Len(words) : ~StrLess(words[j], words[i])
         IN  <<words[m]>>
             \o SortedSeq(SubSeq(words, 1, m - 1) \o SubSeq(words, m + 1, Len(words)))

\* " ".join(words)
RECURSIVE JoinSpace(_)
JoinSpace(words) ==
    IF words = <<>> THEN <<>>
    ELSE IF Len(words) = 1 THEN words[1]
    ELSE words[1] \o <<" ">> \o JoinSpace(Tail(words))

Max(a, b) == IF a > b THEN a ELSE b

SetMax(S) == CHOOSE x \in S : \A y \in S : x >= y

\* one row of the longest-common-subsequence table: row[j] is the length for
\* the prefix of a that ends with the character ai and the first j
\* characters of b, given the row prev of the prefix before it: ai is left
\* out, or matched with an equal b[k], k <= j
LcsRow(prev, ai, b) ==
    [j \in 1..Len(b) |->
        SetMax({prev[j]}
               \cup {(IF k = 1 THEN 0 ELSE prev[k - 1]) + 1 :
                        k \in {m \in 1..j : b[m] = ai}})]

RECURSIVE LcsRows(_, _, _, _)
LcsRows(a, b, i, prev) ==
    IF i > Len(a) THEN prev
    ELSE LET row == LcsRow(prev, a[i], b) \o <<>>
         IN  IF Len(row) = Len(b) THEN LcsRows(a, b, i + 1, row) ELSE <<>>

\* length of the longest common subsequence of a and b
Lcs(a, b) ==
    IF b = <<>> THEN 0
    ELSE LcsRows(a, b, 1, [j \in 1..Len(b) |-> 0])[Len(b)]

\* the two strings fuzz.token_sort_ratio compares
SortedTokens(s) == JoinSpace(SortedSeq(Words(full_process(s))))

SimilarityThreshold == 80

\* fuzz.token_sort_ratio(a, b) under score_cutoff: the score is
\* 100 * 2 * lcs / (len + len) of the processed, token-sorted strings (100
\* when both are empty); a score below the cutoff is no match (0), and a
\* score that reaches it is reported rounded, int(round(score))
token_sort_ratio(a, b, score_cutoff) ==
    LET x == SortedTokens(a)
        y == SortedTokens(b)
        n == Len(x) + Len(y)
        lcs == Lcs(x, y)
    IN  IF n = 0 THEN 100
        ELSE IF 200 * lcs >= score_cutoff * n THEN (400 * lcs + n) \div (2 * n)
        ELSE 0

\* line 300: process.extractBests(..., score_cutoff=80, limit=1): the score
\* of the best choice that reaches the cutoff, or 0 when there is none
BestMatchScore(split_value, map_values) ==
    SetMax({0} \cup {token_sort_ratio(split_value, map_values[i], SimilarityThreshold) :
                        i \in 1..Len(map_values)})

----------------------------------------------------------------------------
(* Decompose: one cell, lines 268-309                                      *)

s_description == <<"d", "e", "s", "c", "r", "i", "p", "t", "i", "o", "n">>
s_beizhu == <<"u5907", "u6ce8">>

\* lines 269-272: the tokens of a cell
Tokenize(text) ==
    LET split1 == PySplit(text, ",")
        split2 == PySplit(text, ";")
        chosen == IF Len(split1) > Len(split2) THEN split1 ELSE split2
    IN  [i \in 1..Len(chosen) |-> ReplaceNewlines(Strip(chosen[i]))]

\* lines 273-278: the record before any token is classified
InitialRow(text, cols) ==
    [k \in {s_description, s_beizhu} \cup {cols[i].name : i \in 1..Len(cols)} |->
        IF k = s_description THEN text ELSE <<>>]

\* cur if it is empty, else cur + "," + token
JoinComma(cur, token) == IF cur = <<>> THEN token ELSE cur \o <<",">> \o token

\* faulty variant: the lone dash is not skipped
SkipTokenKeepsDash(split_value) ==
    is_number(split_value) \/ split_value = <<>>

\* line 280: the token is skipped
SkipToken(split_value) ==
    is_number(split_value) \/ split_value = <<>> \/ split_value = s_dash

\* lines 287-289: the name field after the candidates from index i on
RECURSIVE NameScan(_, _, _, _)
NameScan(cur, map_values, split_value, i) ==
    IF i > Len(map_values) THEN cur
    ELSE LET map_value == map_values[i]
             next == IF IsSubstr(Lower(map_value), Lower(split_value))
                     THEN IF cur = <<>> \/ Len(map_value) >= Len(cur)
                          THEN map_value ELSE cur
                     ELSE cur
         IN  NameScan(next, map_values, split_value, i + 1)

\* lines 293-297: some candidate is contained in the token
SubstringHit(map_values, split_value) ==
    \E i \in 1..Len(map_values) : IsSubstr(Lower(map_values[i]), Lower(split_value))

\* lines 283-306: the loop over the columns from column c on, for one token;
\* st is [row, is_match, best_match_score]
RECURSIVE ClassifyColumns(_, _, _, _)
ClassifyColumns(st, cols, split_value, c) ==
    IF c > Len(cols) THEN st
    ELSE
        LET map_col_name == cols[c].name
            map_values == cols[c].values
            row1 == IF map_col_name = s_mingcheng
                    THEN [st.row EXCEPT ![map_col_name] =
                            NameScan(@, map_values, split_value, 1)]
                    ELSE st.row
        IN  IF map_col_name = s_biaozhun \/ map_col_name = s_caizhi
            THEN IF SubstringHit(map_values, split_value)
                 THEN ClassifyColumns(
                        [st EXCEPT !.is_match = TRUE,
                                   !.row = [row1 EXCEPT ![map_col_name] =
                                                JoinComma(@, split_value)]],
                        cols, split_value, c + 1)
                 ELSE ClassifyColumns([st EXCEPT !.row = row1], cols, split_value, c + 1)
            ELSE
                LET score == BestMatchScore(split_value, map_values)
                IN  IF score > st.best_match_score
                    THEN ClassifyColumns(
                            [st EXCEPT !.is_match = TRUE,
                                       !.row = [row1 EXCEPT ![map_col_name] =
                                                   IF map_col_name = s_mingcheng
                                                   THEN split_value
                                                   ELSE JoinComma(@, split_value)]],
                            cols, split_value, c + 1)
                    ELSE ClassifyColumns([st EXCEPT !.row = row1], cols, split_value,
                                         c + 1)

\* lines 280-308: the body of the loop over the tokens, for one token
ClassifyTokenRow(row, cols, split_value) ==
    IF SkipToken(split_value) THEN row
    ELSE LET st == ClassifyColumns(
                     [row |-> row, is_match |-> FALSE, best_match_score |-> 0],
                     cols, split_value, 1)
         IN  IF ~st.is_match
             THEN [st.row EXCEPT ![s_beizhu] = JoinComma(@, split_value)]
             ELSE st.row

----------------------------------------------------------------------------
(* Decompose: the mappings and cells tried, and the state machine          *)

s_flange == <<"f", "l", "a", "n", "g", "e">>
s_SS317 == <<"S", "S", "3", "1", "7">>
s_1500 == <<"1", "5", "0", "0">>
s_Steel == <<"S", "t", "e", "e", "l">>
s_Stainless_Steel ==
    <<"S", "t", "a", "i", "n", "l", "e", "s", "s", " ", "S", "t", "e", "e", "l">>
s_Stainless_Steel_316L == s_Stainless_Steel \o <<" ", "3", "1", "6", "L">>
s_Steel_flange == s_Steel \o <<" ">> \o s_flange

Column(name, values) == [name |-> name, values |-> values]
Mapping(cols) == [present |-> TRUE, cols |-> cols]
\* read_json_file returned None
NoMapping == [present |-> FALSE, cols |-> <<>>]

Mappings ==
    {NoMapping,
     Mapping(<<Column(s_Material, <<s_SS316>>), Column(s_Item, <<s_SS316>>)>>),
     Mapping(<<Column(s_Item, <<s_SS317>>)>>),
     Mapping(<<Column(s_Material, <<s_SS316>>), Column(s_Standard, <<s_ASTM_A312>>)>>),
     Mapping(<<Column(s_mingcheng, <<s_Stainless_Steel, s_Steel>>)>>),
     Mapping(<<Column(s_mingcheng, <<s_Steel, s_Stainless_Steel>>)>>),
     Mapping(<<Column(s_biaozhun, <<s_A312>>), Column(s_caizhi, <<s_SS316>>),
               Column(s_mingcheng, <<s_Stainless_Steel, s_Steel>>)>>)}

MaxTokens == 2

TokenPool ==
    {s_SS316, s_ASTM_A312, s_flange, s_1500, s_dash, <<>>, s_Stainless_Steel_316L,
     s_Steel_flange}

Separators == {<<",", " ">>, <<";">>}

RECURSIVE JoinWith(_, _)
JoinWith(tokens, sep) ==
    IF tokens = <<>> THEN <<>>
    ELSE IF Len(tokens) = 1 THEN tokens[1]
    ELSE tokens[1] \o sep \o JoinWith(Tail(tokens), sep)

\* "SS316,flange;ASTM A312": one comma and one semicolon
MixedCell == s_SS316 \o <<",">> \o s_flange \o <<";">> \o s_ASTM_A312

\* " SS316\nflange ,1500": a line break inside a token, blanks around it
NewlineCell == <<" ">> \o s_SS316 \o <<"\n">> \o s_flange \o <<" ", ",">> \o s_1500

\* the cells: up to MaxTokens tokens of the pool, joined by ", " or by ";",
\* and the cell of the specification's example
CellTexts ==
    {JoinWith(t, sep) : t \in UNION {[1..n -> TokenPool] : n \in 1..MaxTokens},
                        sep \in Separators}
    \cup {JoinWith(<<s_SS316, s_ASTM_A312, s_flange>>, <<",", " ">>), MixedCell,
          NewlineCell}

DcInit ==
    /\ orign_map_data \in Mappings
    /\ value = <<>>
    /\ split = <<>>
    /\ tok_idx = 0
    /\ row_data = <<>>
    /\ dpc = "start"

\* lines 268-278 with no mapping: orign_map_data.keys() raises
DecomposeCrash ==
    /\ dpc = "start"
    /\ ~orign_map_data.present
    /\ dpc' = "crashed"
    /\ UNCHANGED <<orign_map_data, value, split, tok_idx, row_data>>
    /\ UNCHANGED <<hdr_vars, hv_vars>>

\* lines 268-278: the next cell is split and its record started
StartCell ==
    /\ dpc = "start"
    /\ orign_map_data.present
    /\ \E text \in CellTexts :
        /\ value' = text
        /\ split' = Tokenize(text)
        /\ row_data' = InitialRow(text, orign_map_data.cols)
    /\ tok_idx' = 1
    /\ dpc' = "tokens"
    /\ UNCHANGED orign_map_data
    /\ UNCHANGED <<hdr_vars, hv_vars>>

\* lines 279-308: one turn of the loop over the tokens
ClassifyToken ==
    /\ dpc = "tokens"
    /\ tok_idx <= Len(split)
    /\ row_data' = ClassifyTokenRow(row_data, orign_map_data.cols, split[tok_idx])
    /\ tok_idx' = tok_idx + 1
    /\ UNCHANGED <<orign_map_data, value, split, dpc>>
    /\ UNCHANGED <<hdr_vars, hv_vars>>

\* line 309: the record is appended to the file's list
AppendRecord ==
    /\ dpc = "tokens"
    /\ tok_idx > Len(split)
    /\ dpc' = "appended"
    /\ UNCHANGED <<orign_map_data, value, split, tok_idx, row_data>>
    /\ UNCHANGED <<hdr_vars, hv_vars>>

DcNext == DecomposeCrash \/ StartCell \/ ClassifyToken \/ AppendRecord

----------------------------------------------------------------------------
(* The specifications                                                      *)

Init == HvInit /\ HdrIdle /\ DcIdle
Next == HvNext
Spec == Init /\ [][Next]_vars

InitDecompose == DcInit /\ HdrIdle /\ HvIdle
NextDecompose == DcNext
SpecDecompose == InitDecompose /\ [][NextDecompose]_vars

HdrNext == FindHeaderRow \/ FindHeaderRow1
InitHeader == HdrInit /\ HvIdle /\ DcIdle
NextHeader == HdrNext
SpecHeader == InitHeader /\ [][NextHeader]_vars

----------------------------------------------------------------------------
(* Claims about header location (checked under SpecHeader)                 *)

TextCells(row) == {i \in 1..Len(row) : row[i].k = "str"}
PresentCells(row) == {i \in 1..Len(row) : row[i].k # "nan"}

\* extract1 also takes for text a present cell that is no str and whose
\* string form is not a plain decimal number
TextCells1(row) ==
    {i \in 1..Len(row) :
        \/ row[i].k = "str"
        \/ row[i].k \in {"num", "obj"} /\ ~PlainDecimalRe(Strip(row[i].s))}

\* the candidate rows the claims name: the first min(10, row_count) rows
\* but the last of them
WindowRows(df) == {i \in 0..9 : i + 1 < Min(10, Len(df))}

\* the candidate rows of extract1: the first min(10, row_count - 1) rows
WindowRows1(df) == {i \in 0..9 : i < Len(df) - 1}

\* row i (0-based) has a present cell, more than half of its present cells
\* are text, and row i + 1 has a present cell
Qualifies(df, i) ==
    /\ PresentCells(df[i + 1]) # {}
    /\ 2 * Cardinality(TextCells(df[i + 1])) > Cardinality(PresentCells(df[i + 1]))
    /\ PresentCells(df[i + 2]) # {}

\* the same with extract1's text cells
Qualifies1(df, i) ==
    /\ PresentCells(df[i + 1]) # {}
    /\ 2 * Cardinality(TextCells1(df[i + 1])) > Cardinality(PresentCells(df[i + 1]))
    /\ PresentCells(df[i + 2]) # {}

\* the same with "at least half"
QualifiesAtLeastHalf(df, i) ==
    /\ PresentCells(df[i + 1]) # {}
    /\ 2 * Cardinality(TextCells(df[i + 1])) >= Cardinality(PresentCells(df[i + 1]))
    /\ PresentCells(df[i + 2]) # {}

SmallestOrZero(S) == IF S = {} THEN 0 ELSE CHOOSE i \in S : \A j \in S : i <= j

\* C1 as stated: whichever script's find_header_row ran, the result is the
\* smallest qualifying index among the first min(10, row_count) rows but the
\* last, and 0 when there is none. (Each script's own string count is used.)
C1_AsStated ==
    /\ hdr_variant = "extact2" =>
        hdr_result =
            SmallestOrZero({i \in WindowRows(hdr_df) : Qualifies(hdr_df, i)})
    /\ hdr_variant = "extract1" =>
        hdr_result =
            SmallestOrZero({i \in WindowRows(hdr_df) : Qualifies1(hdr_df, i)})

\* C1 amended: in the two extact2 scripts the result is the smallest
\* qualifying index among the first min(10, row_count) rows but the last
\* (text = str cells); in extract1 it is the smallest qualifying index among
\* the first min(10, row_count - 1) rows (text = str cells and non-decimal
\* other cells); 0 when no candidate row qualifies.
C1_HeaderIsFirstQualifying ==
    /\ hdr_variant = "extact2" =>
        hdr_result =
            SmallestOrZero({i \in WindowRows(hdr_df) : Qualifies(hdr_df, i)})
    /\ hdr_variant = "extract1" =>
        hdr_result =
            SmallestOrZero({i \in WindowRows1(hdr_df) : Qualifies1(hdr_df, i)})

\* C1 witness: extact2 found the header in the last candidate row of a
\* ten-row window, below rows that do not qualify
C1_Witness ==
    /\ hdr_variant = "extact2"
    /\ Len(hdr_df) >= 10
    /\ hdr_result = 8

\* C2 as stated: if some row of the first 10 rows has at least 50% text cells
\* among its present cells and a non-empty row after it, the result is the
\* index of the first such row (the 10th row and a ratio of exactly 50%
\* included).
C2_AsStated ==
    LET rows == {i \in 0..9 : i + 2 <= Len(hdr_df) /\ QualifiesAtLeastHalf(hdr_df, i)}
    IN  (hdr_variant = "extact2" /\ rows # {}) => hdr_result = SmallestOrZero(rows)

\* C2 amended: if some row among the first min(10, row_count) - 1 rows has
\* more than 50% text cells among its present cells and a non-empty row after
\* it, extact2's find_header_row returns the index of the first such row; a
\* row of exactly 50% text, and the 10th row, are never returned (unless the
\* index is 0, the fallback).
C2_HeaderMoreThanHalf ==
    hdr_variant = "extact2" =>
        LET rows == {i \in WindowRows(hdr_df) : Qualifies(hdr_df, i)}
        IN  /\ rows # {} =>
                /\ hdr_result \in rows
                /\ \A j \in rows : hdr_result <= j
            /\ hdr_result # 0 =>
                /\ hdr_result < 9
                /\ 2 * Cardinality(TextCells(hdr_df[hdr_result + 1]))
                     # Cardinality(PresentCells(hdr_df[hdr_result + 1]))

\* C2 witness: nine rows of exactly 50% text, then a text row and a row
\* after it: the 10th row is the first with more than 50%, and 0 is returned
C2_Witness ==
    /\ hdr_variant = "extact2"
    /\ Len(hdr_df) = 11
    /\ \A i \in 0..8 : QualifiesAtLeastHalf(hdr_df, i) /\ ~Qualifies(hdr_df, i)
    /\ Qualifies(hdr_df, 9)
    /\ hdr_result = 0

----------------------------------------------------------------------------
(* Claims about harvesting (checked under Spec)                            *)

\* the values of column k of all_data: a set while files are processed, a
\* sorted list once finalized
KBValues(k) ==
    IF pc \in {"finalized", "done"} THEN Range(all_data[k]) ELSE all_data[k]

ValuesIn(data, k) == IF k \in DOMAIN data THEN data[k] ELSE {}

Contains(v, e) ==
    \E i \in 1..Len(v) + 1 : \E j \in (i - 1)..Len(v) : SubSeq(v, i, j) = e

LastFile == files_done[Len(files_done)]

\* C3: every merge the last process_excel_file call made into the column
\* named exactly "u6807u51c6" (standard) added the harvested values but those
\* that contain a value the column held before that merge; every merge into
\* another column added all the harvested values; no merge touched another
\* column or removed a value.
C3_SubsumptionOnMerge ==
    \A n \in 1..Len(merge_log) :
        LET m == merge_log[n]
            old == ValuesIn(m.before, m.col_name)
            discarded == {v \in m.harvested : \E e \in old : Contains(v, e)}
        IN  /\ DOMAIN m.after = DOMAIN m.before \cup {m.col_name}
            /\ \A k \in DOMAIN m.before \ {m.col_name} : m.after[k] = m.before[k]
            /\ m.after[m.col_name] =
                 IF m.col_name = s_biaozhun
                 THEN old \cup (m.harvested \ discarded)
                 ELSE old \cup m.harvested

\* C3 witness: "A312" was in the standard column, "ASTM A312" was harvested,
\* and the column holds "A312" alone after the merge
C3_Witness ==
    \E n \in 1..Len(merge_log) :
        /\ merge_log[n].col_name = s_biaozhun
        /\ ValuesIn(merge_log[n].before, s_biaozhun) = {s_A312}
        /\ s_ASTM_A312 \in merge_log[n].harvested
        /\ merge_log[n].after[s_biaozhun] = {s_A312}

\* C4 as stated: in every reachable state no value of the standard column is
\* a strict substring of another value of that column. (Stated for the
\* non-empty values, so that the empty string of C5 does not decide it.)
C4_AsStated ==
    s_biaozhun \in DOMAIN all_data =>
        \A a \in KBValues(s_biaozhun) \ {<<>>} : \A b \in KBValues(s_biaozhun) :
            a # b => ~Contains(b, a)

\* C5 as stated: every value of every column is a non-empty string other
\* than "-" (and occurs once in its column).
C5_AsStated ==
    \A k \in DOMAIN all_data :
        /\ <<>> \notin KBValues(k)
        /\ s_dash \notin KBValues(k)
        /\ pc \in {"finalized", "done"} => Cardinality(KBValues(k)) = Len(all_data[k])

\* C6: a run that started from an empty all_data, processed the same file
\* twice in succession and finalized holds exactly what processing that file
\* once and finalizing gives.
C6_HarvestTwiceIsHarvestOnce ==
    (/\ pc = "finalized"
     /\ kb_start = EmptyMap
     /\ Len(files_done) = 2
     /\ files_done[1] = files_done[2])
    => all_data = Finalized(process_excel_file(EmptyMap, files_done[1]).data)

\* C6 witness: such a run on the file whose standard column holds "A312" and
\* "ASTM A312"
C6_Witness ==
    /\ pc = "finalized"
    /\ kb_start = EmptyMap
    /\ files_done =
         <<File(<<ColumnSheet(s_biaozhun, <<Str(s_A312), Str(s_ASTM_A312)>>)>>),
           File(<<ColumnSheet(s_biaozhun, <<Str(s_A312), Str(s_ASTM_A312)>>)>>)>>
    /\ all_data = (s_biaozhun :> <<s_A312, s_ASTM_A312>>)

HasKeyword(keyword_list, name) ==
    \E i \in 1..Len(keyword_list) : Contains(Lower(name), Lower(keyword_list[i]))

HasCJK(name) == \E i \in 1..Len(name) : name[i] \in CJK

\* whitelisted and not skipped, a name with no Chinese character being skipped
Harvestable(name) ==
    /\ name # <<>>
    /\ HasKeyword(config.white_list_keywords, name)
    /\ ~HasKeyword(config.keywords, name)
    /\ HasCJK(name)

\* C7 as stated, its example: the English table, whitelist ["Material",
\* "Standard"], harvested into an empty all_data, gives Material = {"SS316"}
\* and Standard = {"ASTM A312"} and nothing else.
C7_AsStated ==
    (/\ pc = "files"
     /\ files_done # <<>>
     /\ LastFile = File(<<EnglishSheet>>)
     /\ config = EnglishConfig
     /\ kb_before = EmptyMap)
    => all_data = (s_Material :> {s_SS316}) @@ (s_Standard :> {s_ASTM_A312})

\* C7 amended: process_excel_file merges only into columns whose name is
\* whitelisted and not skipped, a name with no Chinese character counting as
\* skipped; for a file of one readable sheet with a data row it merges into
\* every such column; so the English table of the claim adds nothing, and the
\* same table with the header ["u5e8fu53f7", "u6750u8d28", "u6807u51c6",
\* "u63cfu8ff0"] under main's keyword lists adds "SS316" to the material
\* column, "ASTM A312" to the standard column and no other column.
C7_HarvestColumnSelection ==
    files_done # <<>> =>
        /\ \A n \in 1..Len(merge_log) : Harvestable(merge_log[n].col_name)
        /\ (/\ LastFile.readable
            /\ Len(LastFile.sheets) = 1
            /\ LastFile.sheets[1].readable
            /\ Len(LastFile.sheets[1].rows) >= 2) =>
                LET df == LastFile.sheets[1].rows
                    h == find_header_row(df)
                    names == process_header(df[h + 1], df[h + 2])
                IN  {merge_log[n].col_name : n \in 1..Len(merge_log)}
                        = {names[i] : i \in {j \in 1..Len(names) : Harvestable(names[j])}}
        /\ LastFile = File(<<EnglishSheet>>) => merge_log = <<>>
        /\ (LastFile = File(<<ChineseSheet>>) /\ config = MainConfig /\ kb_before = EmptyMap
                /\ pc = "files") =>
                all_data = (s_caizhi :> {s_SS316}) @@ (s_biaozhun :> {s_ASTM_A312})

\* C7 witness: the Chinese table harvested under main's keyword lists into
\* an empty all_data
C7_Witness ==
    /\ pc = "files"
    /\ files_done # <<>>
    /\ LastFile = File(<<ChineseSheet>>)
    /\ config = MainConfig
    /\ kb_before = EmptyMap
    /\ all_data = (s_caizhi :> {s_SS316}) @@ (s_biaozhun :> {s_ASTM_A312})

----------------------------------------------------------------------------
(* Claims about decomposition (checked under SpecDecompose)                *)

ColumnsNamed(names) ==
    {c \in 1..Len(orign_map_data.cols) : orign_map_data.cols[c].name \in names}

CandidatesOf(c) ==
    {orign_map_data.cols[c].values[i] : i \in 1..Len(orign_map_data.cols[c].values)}

\* empty, a lone dash, or a number for float()
IsSkipped(token) == token = <<>> \/ token = s_dash \/ PyFloatOk(token)

ClassifiedTokens == {i \in 1..Len(split) : ~IsSkipped(split[i])}

ContainsNoCase(token, candidate) == Contains(Lower(token), Lower(candidate))

\* the name candidates that some token of the cell contains
NameCandidatesHit ==
    {v \in UNION {CandidatesOf(c) : c \in ColumnsNamed({s_mingcheng})} :
        \E i \in ClassifiedTokens : ContainsNoCase(split[i], v)}

\* C8 as stated: once a cell is decomposed, the name field holds the longest
\* name candidate that some token of the cell contains (case-insensitive),
\* never a shorter one and never the raw token.
C8_AsStated ==
    (dpc = "appended" /\ NameCandidatesHit # {}) =>
        /\ row_data[s_mingcheng] \in NameCandidatesHit
        /\ \A v \in NameCandidatesHit : Len(row_data[s_mingcheng]) >= Len(v)

\* the token matched some column under a rule of 4.7: a name candidate or a
\* standard/material candidate is contained in it, or its similarity with a
\* candidate of another column reaches the threshold
MatchedSomeColumn(token) ==
    \/ \E c \in ColumnsNamed({s_mingcheng, s_biaozhun, s_caizhi}) :
        \E v \in CandidatesOf(c) : ContainsNoCase(token, v)
    \/ \E c \in 1..Len(orign_map_data.cols) :
        /\ orign_map_data.cols[c].name \notin {s_biaozhun, s_caizhi}
        /\ \E v \in CandidatesOf(c) : token_sort_ratio(token, v, SimilarityThreshold) > 0

RemainderToken(t) == ~IsSkipped(t) /\ ~MatchedSomeColumn(t)

RECURSIVE JoinAll(_)
JoinAll(tokens) ==
    IF tokens = <<>> THEN <<>>
    ELSE IF Len(tokens) = 1 THEN Head(tokens)
    ELSE Head(tokens) \o <<",">> \o JoinAll(Tail(tokens))

\* C9 as stated: once a cell is decomposed, the remainder field is the
\* comma-joined list, in token order, of exactly the non-skipped tokens that
\* matched no column under any rule of 4.7.
C9_AsStated ==
    dpc = "appended" =>
        row_data[s_beizhu] =
            JoinAll(SelectSeq(split, RemainderToken))

\* C10: a turn of the token loop on a token that is empty, a lone dash or a
\* number changes no field of the record: the token reaches neither a
\* classified field nor the remainder field.
C10_SkippedTokenChangesNothing ==
    [][(dpc = "tokens" /\ tok_idx <= Len(split) /\ tok_idx' = tok_idx + 1
            /\ IsSkipped(split[tok_idx]))
        => row_data' = row_data]_vars

\* C10 witness: the cell "1500, flange" decomposed: "1500" is nowhere and
\* "flange" is the remainder
C10_Witness ==
    /\ dpc = "appended"
    /\ split = <<s_1500, s_flange>>
    /\ row_data[s_beizhu] = s_flange
    /\ \A k \in DOMAIN row_data \ {s_beizhu, s_description} : row_data[k] = <<>>

\* the example of the specification: "SS316, ASTM A312, flange" against
\* Material = ["SS316"], Standard = ["ASTM A312"]
ExampleDecomposition ==
    (/\ dpc = "appended"
     /\ value = JoinWith(<<s_SS316, s_ASTM_A312, s_flange>>, <<",", " ">>)
     /\ orign_map_data.cols
          = <<Column(s_Material, <<s_SS316>>), Column(s_Standard, <<s_ASTM_A312>>)>>)
    => /\ row_data[s_Material] = s_SS316
       /\ row_data[s_Standard] = s_ASTM_A312
       /\ row_data[s_beizhu] = s_flange

\* a cell has been split: value and split are those of the current cell
CellSplit == dpc \in {"tokens", "appended"}

\* trimmed, line breaks made spaces
Trimmed(token) == [i \in 1..Len(Strip(token)) |-> IF Strip(token)[i] = "\n" THEN " "
                                                   ELSE Strip(token)[i]]

\* C11 as stated: the tokens of a cell are those of the split with more
\* pieces, the comma split when both splits have the same number of pieces,
\* each trimmed and its line breaks replaced by spaces.
C11_AsStated ==
    CellSplit =>
        LET byComma == PySplit(value, ",")
            bySemicolon == PySplit(value, ";")
            chosen == IF Len(byComma) >= Len(bySemicolon) THEN byComma ELSE bySemicolon
        IN  split = [i \in 1..Len(chosen) |-> Trimmed(chosen[i])]

\* the columns classified by similarity alone
GenericColumns == ColumnsNamed({orign_map_data.cols[c].name :
                                    c \in 1..Len(orign_map_data.cols)}
                               \ {s_mingcheng, s_biaozhun, s_caizhi})

\* the best similarity of the token with a candidate of column c, 0..100
BestScore(token, c) ==
    SetMax({0} \cup {token_sort_ratio(token, v, 0) : v \in CandidatesOf(c)})

\* C18 as stated: in the record of a cell of one classified token, a generic
\* column holds the token only if its best score exceeds 80 and exceeds the
\* best score of every generic column evaluated before it.
C18_AsStated ==
    (dpc = "appended" /\ Len(split) = 1 /\ ~IsSkipped(split[1])) =>
        \A c \in GenericColumns :
            row_data[orign_map_data.cols[c].name] # <<>> =>
                /\ BestScore(split[1], c) > SimilarityThreshold
                /\ \A b \in GenericColumns : b < c => BestScore(split[1], c) > BestScore(split[1], b)

\* C13 as stated (decomposition): when the snapshot is absent or unreadable
\* (read_json_file returned None) the decomposition of the collected cells does
\* not end in an error: every cell gets its record.
C13_AsStated ==
    ~orign_map_data.present => dpc # "crashed"

----------------------------------------------------------------------------
(* Claims about finalizing, failures and order (checked under Spec)        *)

\* strictly ascending: sorted, and no value twice
IsAscending(values) ==
    \A i \in 1..Len(values) : \A j \in (i + 1)..Len(values) : StrLess(values[i], values[j])

\* C12: once the file loop is over, every column of all_data is a non-empty,
\* strictly ascending list; finalizing keeps exactly the columns whose set
\* was not empty, each with exactly its values; and main then writes exactly
\* this mapping as the snapshot (nothing is written when no column is left).
C12_FinalizeSortsAndPrunes ==
    /\ [](pc \in {"finalized", "done"} =>
            \A k \in DOMAIN all_data : all_data[k] # <<>> /\ IsAscending(all_data[k]))
    /\ [][(pc = "files" /\ pc' = "finalized") =>
            /\ DOMAIN all_data' = {k \in DOMAIN all_data : all_data[k] # {}}
            /\ \A k \in DOMAIN all_data' :
                {all_data'[k][i] : i \in 1..Len(all_data'[k])} = all_data[k]]_vars
    /\ [][(pc = "finalized" /\ pc' = "done") =>
            IF DOMAIN all_data = {} THEN disk' = disk
            ELSE disk' = [present |-> TRUE, data |-> all_data]]_vars

\* C12 witness: a standard column that harvested nothing and a material
\* column with two values: the snapshot holds the material column alone,
\* sorted
C12_Witness ==
    /\ pc = "done"
    /\ files_done =
         <<File(<<ColumnSheet(s_biaozhun,
                    <<Str(s_dash), Num(s_12), Str(s_12), Str(s_guobiao), NaN>>)>>),
           File(<<ColumnSheet(s_caizhi, <<Str(s_A312), Str(s_ASTM_A312)>>)>>)>>
    /\ disk = [present |-> TRUE, data |-> (s_caizhi :> <<s_A312, s_ASTM_A312>>)]
    /\ all_data = disk.data

\* the sheet is read and has a data row below its header
SheetHasData(sh) ==
    /\ sh.readable
    /\ sh.rows # <<>>
    /\ find_header_row(sh.rows) + 1 < Len(sh.rows)

\* the sheet has a data row and a column that is to be harvested
SheetHasHarvest(sh) ==
    /\ SheetHasData(sh)
    /\ LET h == find_header_row(sh.rows)
           names == process_header(sh.rows[h + 1], sh.rows[h + 2])
       IN  \E i \in 1..Len(names) : Harvestable(names[i])

\* C14 as stated (sheets): in the file processed last, a sheet that cannot be
\* read, is empty or has no data row does not keep a later sheet of the file
\* from being harvested: every later sheet with a column to harvest has a
\* merge.
C14_AsStated ==
    (files_done # <<>> /\ LastFile.readable) =>
        \A k \in 1..Len(LastFile.sheets) :
            (/\ SheetHasHarvest(LastFile.sheets[k])
             /\ \E j \in 1..(k - 1) : ~SheetHasData(LastFile.sheets[j]))
            => \E n \in 1..Len(merge_log) : merge_log[n].sheet = k - 1

\* processing the file ends in an error: the file cannot be opened, or the
\* loop over its sheets reaches a sheet that cannot be read
FileFails(file) ==
    \/ ~file.readable
    \/ \E k \in 1..Len(file.sheets) :
        /\ ~file.sheets[k].readable
        /\ \A j \in 1..(k - 1) : SheetHasData(file.sheets[j])

\* C15 as stated: when processing of the last file failed with an error,
\* all_data after the failure equals all_data before that file was started.
C15_AsStated ==
    (pc = "files" /\ files_done # <<>> /\ FileFails(LastFile)) => all_data = kb_before

\* the surviving cells of column i (1-based) of the sheet's own data rows
OwnSheetValues(sh, i) ==
    LET h == find_header_row(sh.rows)
    IN  ProcessedData(SubSeq(sh.rows, h + 2, Len(sh.rows)), i - 1)

\* C16 as stated: in a file all of whose sheets are read and have data rows,
\* every column to harvest of every sheet k has a merge, and the values that
\* merge harvested are the surviving cells of that column of sheet k itself.
C16_AsStated ==
    (/\ files_done # <<>>
     /\ LastFile.readable
     /\ \A k \in 1..Len(LastFile.sheets) : SheetHasData(LastFile.sheets[k]))
    => \A k \in 1..Len(LastFile.sheets) :
        LET sh == LastFile.sheets[k]
            h == find_header_row(sh.rows)
            names == process_header(sh.rows[h + 1], sh.rows[h + 2])
        IN  \A i \in 1..Len(names) :
                Harvestable(names[i]) =>
                    \E n \in 1..Len(merge_log) :
                        /\ merge_log[n].sheet = k - 1
                        /\ merge_log[n].col_idx = i - 1
                        /\ merge_log[n].harvested = OwnSheetValues(sh, i)

\* the name the claim gives the column of header cell i (1-based)
ClaimedName(header_row, first_data_row, i) ==
    IF header_row[i].k = "nan" \/ Strip(header_row[i].s) = <<>>
    THEN IF i <= Len(first_data_row) /\ first_data_row[i].k # "nan"
         THEN first_data_row[i].s
         ELSE s_Column_ \o IntStr(i - 1)
    ELSE Strip(header_row[i].s)

\* C17 as stated: every merge of the last file went into the column whose
\* name is built from the header cell as the claim says: the header cell
\* stringified and trimmed, or, when it is missing or blank, the stringified
\* first data cell, or "Column_<index>".
C17_AsStated ==
    (files_done # <<>> /\ LastFile.readable) =>
        \A n \in 1..Len(merge_log) :
            LET rows == LastFile.sheets[merge_log[n].sheet + 1].rows
                h == find_header_row(rows)
            IN  merge_log[n].col_name
                    = ClaimedName(rows[h + 1], rows[h + 2], merge_log[n].col_idx + 1)

\* all_data had the two files of this run been processed in the other order
OtherOrder ==
    process_excel_file(process_excel_file(kb_start, files_done[2]).data,
                       files_done[1]).data

\* a mapping without its standard column
WithoutStandard(data) == [k \in DOMAIN data \ {s_biaozhun} |-> data[k]]

\* C19: after two files were processed from the same starting all_data, every
\* column other than the standard column holds the same values as it would
\* had the two files been processed in the other order, before and after
\* finalizing. (The witness shows the standard column differing.)
C19_OtherColumnsOrderInsensitive ==
    Len(files_done) = 2 =>
        /\ pc = "files" => WithoutStandard(all_data) = WithoutStandard(OtherOrder)
        /\ pc \in {"finalized", "done"} =>
            WithoutStandard(all_data) = WithoutStandard(Finalized(OtherOrder))

\* C19 witness: "ASTM A312" then "A312" in the standard column keeps both,
\* the other order keeps "A312" alone, and the material column is the same
C19_Witness ==
    /\ pc = "finalized"
    /\ Len(files_done) = 2
    /\ kb_start = EmptyMap
    /\ all_data = (s_biaozhun :> <<s_A312, s_ASTM_A312>>) @@ (s_caizhi :> <<s_SS316>>)
    /\ Finalized(OtherOrder) = (s_biaozhun :> <<s_A312>>) @@ (s_caizhi :> <<s_SS316>>)

\* column k of all_data holds the value v
Holds(k, v) == k \in DOMAIN all_data /\ v \in KBValues(k)

\* C20: while the files of a run are processed and after finalizing, every
\* value of every column of the snapshot the run loaded is in that column of
\* all_data; processing a file removes no value that all_data held before
\* it; and the snapshot written at the end of the run holds every value of
\* the one loaded at its start.
C20_LoadedValuesKept ==
    /\ (pc \in {"files", "finalized"} /\ disk.present) =>
            \A k \in DOMAIN disk.data :
                \A i \in 1..Len(disk.data[k]) : Holds(k, disk.data[k][i])
    /\ pc \in {"files", "finalized", "done"} =>
            \A k \in DOMAIN kb_start : \A v \in kb_start[k] : Holds(k, v)
    /\ pc = "files" =>
            \A k \in DOMAIN kb_before : \A v \in kb_before[k] : Holds(k, v)
    /\ (pc = "done" /\ files_done # <<>>) =>
            \A k \in DOMAIN kb_start : \A v \in kb_start[k] :
                /\ disk.present
                /\ k \in DOMAIN disk.data
                /\ \E i \in 1..Len(disk.data[k]) : disk.data[k][i] = v

\* C20 witness: a run loaded the snapshot with "A312" in the standard
\* column, harvested the Chinese table and wrote a snapshot that still holds
\* "A312", next to the new material column
C20_Witness ==
    /\ pc = "done"
    /\ kb_start = (s_biaozhun :> {s_A312})
    /\ files_done = <<File(<<ChineseSheet>>)>>
    /\ disk = [present |-> TRUE,
               data |-> (s_biaozhun :> <<s_A312>>) @@ (s_caizhi :> <<s_SS316>>)]

====
